---- MODULE Spec2Model ----
(***************************************************************************)
(* A model of src/src/analysis_script.py: the loader/cleaner               *)
(* (load_and_clean_data), the merger and metric calculator                 *)
(* (run_data_processing), the chart renderer (generate_charts) and the     *)
(* script entry point.                                                     *)
(*                                                                         *)
(* Strings are sequences of one-character strings.  A table cell is the    *)
(* text that .astype(str) yields for it (lines 50, 57 and 66 all start     *)
(* with that conversion).  A float is a record: a finite value is an exact *)
(* fraction n/d in lowest terms, and the IEEE specials are kept apart.     *)
(***************************************************************************)
EXTENDS Integers, Sequences, FiniteSets, TLC

----------------------------------------------------------------------------
(* Characters *)

\* The characters the regex class \w matches, among those the model uses.
Letters ==
    {"a","b","c","d","e","f","g","h","i","j","k","l","m","n","o","p","q","r","s",
     "t","u","v","w","x","y","z","F","J","M"}

Digits == {"0","1","2","3","4","5","6","7","8","9"}

IsWord(c) == c \in Letters \cup Digits \cup {"_"}

\* The characters the regex class \s matches (and str.strip() trims).
IsSpace(c) == c \in {" ", "\t", "\n"}

\* str.lower() on the letters of the model (%B matches case-insensitively).
Lower(c) ==
    CASE c = "F" -> "f"
      [] c = "J" -> "j"
      [] c = "M" -> "m"
      [] OTHER   -> c

LowerStr(s) == [i \in 1..Len(s) |-> Lower(s[i])]

DigitVal(c) ==
    CASE c = "0" -> 0 [] c = "1" -> 1 [] c = "2" -> 2 [] c = "3" -> 3
      [] c = "4" -> 4 [] c = "5" -> 5 [] c = "6" -> 6 [] c = "7" -> 7
      [] c = "8" -> 8 [] c = "9" -> 9

----------------------------------------------------------------------------
(* Month-label cleaning, lines 48-54 *)

\* .str.replace(r'[^\w\s]', '', regex=True)
RemoveNonWordSpace(s) == SelectSeq(s, LAMBDA c : IsWord(c) \/ IsSpace(c))

RECURSIVE LStrip(_)
LStrip(s) ==
    IF s # <<>> /\ IsSpace(Head(s)) THEN LStrip(Tail(s)) ELSE s

RECURSIVE RStrip(_)
RStrip(s) ==
    IF s # <<>> /\ IsSpace(s[Len(s)]) THEN RStrip(SubSeq(s, 1, Len(s) - 1)) ELSE s

\* .str.strip()
Strip(s) == RStrip(LStrip(s))

\* .str.replace(r'\s+', ' ', regex=True): every maximal whitespace run
\* becomes one space.
RECURSIVE CollapseSpace(_)
CollapseSpace(s) ==
    IF s = <<>> THEN <<>>
    ELSE IF IsSpace(Head(s)) THEN <<" ">> \o CollapseSpace(LStrip(Tail(s)))
    ELSE <<Head(s)>> \o CollapseSpace(Tail(s))

\* A slip in the order of the chain: the edges trimmed before the footnote
\* marks are removed.
CleanMonthStripFirst(s) == CollapseSpace(RemoveNonWordSpace(Strip(s)))

CleanMonth(s) == Strip(CollapseSpace(RemoveNonWordSpace(s)))

----------------------------------------------------------------------------
(* Floats: the Value columns and the derived columns *)

RECURSIVE Gcd(_, _)
Gcd(a, b) == IF b = 0 THEN a ELSE Gcd(b, a % b)

Abs(x) == IF x < 0 THEN -x ELSE x

NaN  == [k |-> "nan", n |-> 0, d |-> 1]
PInf == [k |-> "inf", n |-> 1, d |-> 1]
NInf == [k |-> "inf", n |-> -1, d |-> 1]

\* The finite float n/d (d # 0), in lowest terms with a positive denominator.
Fin(n, d) ==
    LET g == Gcd(Abs(n), Abs(d))
        s == IF d < 0 THEN -1 ELSE 1
    IN  [k |-> "fin", n |-> (s * n) \div g, d |-> (s * d) \div g]

IsNull(x) == x.k = "nan"

Sign(x) == IF x.n > 0 THEN 1 ELSE IF x.n < 0 THEN -1 ELSE 0

\* IEEE division, as numpy divides two float64 columns.
FDiv(x, y) ==
    IF IsNull(x) \/ IsNull(y) THEN NaN
    ELSE IF x.k = "inf" /\ y.k = "inf" THEN NaN
    ELSE IF x.k = "inf" THEN (IF Sign(x) * (IF Sign(y) < 0 THEN -1 ELSE 1) > 0 THEN PInf ELSE NInf)
    ELSE IF y.k = "inf" THEN Fin(0, 1)
    ELSE IF y.n = 0 THEN (IF x.n = 0 THEN NaN ELSE IF x.n > 0 THEN PInf ELSE NInf)
    ELSE Fin(x.n * y.d, x.d * y.n)

FSub(x, y) ==
    IF IsNull(x) \/ IsNull(y) THEN NaN
    ELSE IF x.k = "inf" /\ y.k = "inf" THEN (IF Sign(x) = Sign(y) THEN NaN ELSE x)
    ELSE IF x.k = "inf" THEN x
    ELSE IF y.k = "inf" THEN (IF Sign(y) > 0 THEN NInf ELSE PInf)
    ELSE Fin(x.n * y.d - y.n * x.d, x.d * y.d)

FMul(x, y) ==
    IF IsNull(x) \/ IsNull(y) THEN NaN
    ELSE IF x.k = "inf" \/ y.k = "inf"
         THEN (IF Sign(x) * Sign(y) = 0 THEN NaN
               ELSE IF Sign(x) * Sign(y) > 0 THEN PInf ELSE NInf)
    ELSE Fin(x.n * y.n, x.d * y.d)

----------------------------------------------------------------------------
(* Year, date and value parsing, lines 57-68 *)

EndsWith(s, t) ==
    Len(s) >= Len(t) /\ SubSeq(s, Len(s) - Len(t) + 1, Len(s)) = t

\* .str.replace(r'\.0$', '', regex=True).str.strip(): $ matches at the end
\* of the string and before a final newline.
CleanYear(s) ==
    Strip(IF EndsWith(s, <<".", "0">>) THEN SubSeq(s, 1, Len(s) - 2)
          ELSE IF EndsWith(s, <<".", "0", "\n">>)
               THEN SubSeq(s, 1, Len(s) - 3) \o <<"\n">>
          ELSE s)

\* The full month names %B matches, lower-cased (calendar.month_name).
MonthNames ==
    << <<"j","a","n","u","a","r","y">>,
       <<"f","e","b","r","u","a","r","y">>,
       <<"m","a","r","c","h">>,
       <<"a","p","r","i","l">>,
       <<"m","a","y">>,
       <<"j","u","n","e">>,
       <<"j","u","l","y">>,
       <<"a","u","g","u","s","t">>,
       <<"s","e","p","t","e","m","b","e","r">>,
       <<"o","c","t","o","b","e","r">>,
       <<"n","o","v","e","m","b","e","r">>,
       <<"d","e","c","e","m","b","e","r">> >>

\* A slip in the format: '%b %Y', whose month names are the abbreviations,
\* the first three letters of each name.
AbbrMonthNames == [m \in 1..12 |-> SubSeq(MonthNames[m], 1, 3)]

StartsWith(s, t) == Len(s) >= Len(t) /\ SubSeq(s, 1, Len(t)) = t

\* NaT, the null date.
NaT == -1

\* A date is the first day of a month: the months since year 0.
MkDate(year, month) == year * 12 + (month - 1)

\* The match of <name>\s+\d\d\d\d against the whole string, case ignored.
StrpTime(s, names) ==
    LET low == LowerStr(s)
        Rest(m) == SubSeq(s, Len(names[m]) + 1, Len(s))
        Year(m) == LStrip(Rest(m))
        ok(m) == /\ StartsWith(low, names[m])
                 /\ Len(Year(m)) < Len(Rest(m))
                 /\ Len(Year(m)) = 4
                 /\ \A i \in 1..4 : Year(m)[i] \in Digits
        hits == {m \in 1..12 : ok(m)}
    IN  IF hits = {} THEN NaT
        ELSE LET m == CHOOSE h \in hits : \A g \in hits : Len(names[h]) >= Len(names[g])
                 y == Year(m)
             IN  MkDate(DigitVal(y[1]) * 1000 + DigitVal(y[2]) * 100
                        + DigitVal(y[3]) * 10 + DigitVal(y[4]), m)

ToDatetimeAbbr(s) == StrpTime(s, AbbrMonthNames)

\* pd.to_datetime(..., format='%B %Y', errors='coerce') on one string.
ToDatetime(s) == StrpTime(s, MonthNames)

\* .str.replace(',', '')
RemoveCommas(s) == SelectSeq(s, LAMBDA c : c # ",")

RECURSIVE DecVal(_)
DecVal(s) == IF s = <<>> THEN 0 ELSE 10 * DecVal(SubSeq(s, 1, Len(s) - 1)) + DigitVal(s[Len(s)])

\* pd.to_numeric(..., errors='coerce') on one string of digits, commas and
\* letters: an unsigned decimal integer is its value, anything else is NaN
\* (the value cells of the model hold no sign, point, exponent or "inf").
ToNumeric(s) ==
    IF s # <<>> /\ \A i \in 1..Len(s) : s[i] \in Digits THEN Fin(DecVal(s), 1) ELSE NaN

----------------------------------------------------------------------------
(* load_and_clean_data, lines 23-74 *)

\* An input file: absent; "empty" (no line to parse); "short" (some lines,
\* fewer than the 17 that header=16 needs); or a "table": a header row at
\* line 17 naming the columns cols, then the data rows.
NoFile    == [kind |-> "absent", cols |-> {}, rows |-> <<>>]
EmptyFile == [kind |-> "empty", cols |-> {}, rows |-> <<>>]
ShortFile == [kind |-> "short", cols |-> {}, rows |-> <<>>]
Table(cols, rows) == [kind |-> "table", cols |-> cols, rows |-> rows]

NeededCols == {"Month", "Year", "42"}

\* pd.read_csv(file_path, header=16): the exception it raises, or "none".
ReadCsv(file) ==
    CASE file.kind = "absent" -> "FileNotFoundError"
      [] file.kind = "empty"  -> "EmptyDataError"
      [] file.kind = "short"  -> "ParserError"
      [] OTHER                -> "none"

\* Lines 48-61 on one row: the Date column.
RowDate(r) == ToDatetime(CleanMonth(r.Month) \o <<" ">> \o CleanYear(r.Year))

\* Lines 65-67 on one row: the value column.
RowValue(r) == ToNumeric(RemoveCommas(r.val))

\* A slip: the second dropna (line 68) left out, so that only the Date is
\* required.
KeepRowDateOnly(r) == RowDate(r) # NaT

\* The rows both dropna calls keep (lines 62 and 68).
KeepRow(r) == RowDate(r) # NaT /\ ~IsNull(RowValue(r))

\* Line 71's selection of the two columns, before sorting.
CleanRows(rows) ==
    LET kept == SelectSeq(rows, KeepRow)
    IN  [i \in 1..Len(kept) |-> [Date |-> RowDate(kept[i]), Value |-> RowValue(kept[i])]]

IsSortedByDate(t) == \A i \in 1..Len(t) - 1 : t[i].Date <= t[i + 1].Date

\* sort_values('Date').reset_index(drop=True): the default sort is not
\* stable, so rows of equal Date may come out in any order.
SortValues(t) ==
    LET n == Len(t)
        perms == {f \in [1..n -> 1..n] : \A i, j \in 1..n : f[i] = f[j] => i = j}
    IN  {s \in {[i \in 1..n |-> t[f[i]]] : f \in perms} : IsSortedByDate(s)}

Msg(m, file, n) == [msg |-> m, file |-> file, n |-> n]

\* What one call can do: raise exc (df unset), or return df having printed
\* out.  name is file_path.name.
LoadAndCleanData(file, name) ==
    LET exc == ReadCsv(file)
    IN  IF exc = "FileNotFoundError"
        THEN {[exc |-> "none", df |-> <<>>, out |-> <<Msg("file_not_found", name, 0)>>]}
        ELSE IF exc = "EmptyDataError"
        THEN {[exc |-> "none", df |-> <<>>, out |-> <<Msg("empty_or_invalid", name, 0)>>]}
        ELSE IF exc # "none"
        THEN {[exc |-> exc, df |-> <<>>, out |-> <<>>]}
        ELSE IF ~(NeededCols \subseteq file.cols)
        THEN {[exc |-> "KeyError", df |-> <<>>, out |-> <<>>]}
        ELSE {[exc |-> "none", df |-> s, out |-> <<Msg("loaded", name, Len(s))>>] :
                 s \in SortValues(CleanRows(file.rows))}

----------------------------------------------------------------------------
(* The merge and the derived columns, lines 104-111 *)

PERIODS == 12

RECURSIVE MergeLeft(_, _)
\* A slip in how=: a left join, which keeps a sales row without a match,
\* its inventories null.
MergeLeft(sales, inv) ==
    IF sales = <<>> THEN <<>>
    ELSE LET l == Head(sales)
             matches == SelectSeq(inv, LAMBDA r : r.Date = l.Date)
             joined == [k \in 1..Len(matches) |->
                          [Date |-> l.Date, Sales_Total_Nominal |-> l.Value,
                           Inventories_Total_Nominal |-> matches[k].Value]]
         IN  (IF matches = <<>>
              THEN <<[Date |-> l.Date, Sales_Total_Nominal |-> l.Value,
                      Inventories_Total_Nominal |-> NaN]>>
              ELSE joined) \o MergeLeft(Tail(sales), inv)

RECURSIVE MergeInner(_, _)
\* pd.merge(sales_df, inventories_df, on='Date', how='inner'): each sales
\* row, in order, with each inventories row of the same Date, in order.
MergeInner(sales, inv) ==
    IF sales = <<>> THEN <<>>
    ELSE LET l == Head(sales)
             matches == SelectSeq(inv, LAMBDA r : r.Date = l.Date)
         IN  [k \in 1..Len(matches) |->
                 [Date |-> l.Date, Sales_Total_Nominal |-> l.Value,
                  Inventories_Total_Nominal |-> matches[k].Value]]
             \o MergeInner(Tail(sales), inv)

\* Series.shift(periods): row i holds the value of row i - periods, and the
\* first rows hold NaN.
Shift(col, periods) ==
    [i \in 1..Len(col) |-> IF i - periods >= 1 THEN col[i - periods] ELSE NaN]

\* Series.pct_change(periods): data / data.shift(periods) - 1.
PctChange(col, periods) ==
    LET prev == Shift(col, periods)
    IN  [i \in 1..Len(col) |-> FSub(FDiv(col[i], prev[i]), Fin(1, 1))]

\* A slip in periods=: the change over one row, month over month.
SalesYoYGrowthOneRow(col) ==
    LET pc1 == PctChange(col, 1)
    IN  [i \in 1..Len(col) |-> FMul(pc1[i], Fin(100, 1))]

\* A slip: the change left a fraction, not multiplied by 100.
SalesYoYGrowthFraction(col) == PctChange(col, PERIODS)

\* Line 111: pct_change(periods=12) * 100.
SalesYoYGrowth(col) ==
    LET pc12 == PctChange(col, PERIODS)
    IN  [i \in 1..Len(col) |-> FMul(pc12[i], Fin(100, 1))]

\* Lines 104-111: the merged table with its two derived columns.
MergedTable(sales, inv) ==
    LET m == MergeInner(sales, inv)
        growth == SalesYoYGrowth([i \in 1..Len(m) |-> m[i].Sales_Total_Nominal])
    IN  [i \in 1..Len(m) |->
            [Date |-> m[i].Date,
             Sales_Total_Nominal |-> m[i].Sales_Total_Nominal,
             Inventories_Total_Nominal |-> m[i].Inventories_Total_Nominal,
             Inventories_to_Sales_Ratio_Nominal |->
                 FDiv(m[i].Inventories_Total_Nominal, m[i].Sales_Total_Nominal),
             Sales_YoY_Growth |-> growth[i]]]

----------------------------------------------------------------------------
(* Bounds and the inputs drawn within them *)

\* The longest month label of the cleaning specification.
MaxLabelLen == 4

\* The most data rows of the file of the loader specification.
MaxLoadRows == 2

\* The most data rows of each input file of a whole run.
MaxFileRows == 2

\* The most rows of a cleaned series with repeated dates, and of one with a
\* row per month.
MaxDupRows == 4
MaxMonthRows == 14

RECURSIVE SeqsUpTo(_, _)
SeqsUpTo(S, n) ==
    IF n = 0 THEN {<<>>}
    ELSE LET shorter == SeqsUpTo(S, n - 1)
         IN  shorter \cup {Append(t, x) : t \in {u \in shorter : Len(u) = n - 1}, x \in S}

\* Labels of the cleaning specification: a word character, two kinds of whitespace,
\* a footnote mark and the underscore.
LabelChars == {"a", " ", "\t", ".", "_"}

Labels == SeqsUpTo(LabelChars, MaxLabelLen)

Row(month, year, val) == [Month |-> month, Year |-> year, val |-> val]

Jan      == <<"J","a","n">>
Feb      == <<"F","e","b">>
January  == <<"J","a","n","u","a","r","y">>
February == <<"F","e","b","r","u","a","r","y">>

\* Cells of the loader specification: abbreviated and full month names, one in
\* lower case with a footnote mark and untidy whitespace, one with a
\* footnote letter; years as floats, as integers and too short; values with
\* a thousands comma, plain and not numeric.
LoadMonths ==
    {Jan, Feb, January,
     <<" ","f","e","b","r","u","a","r","y","(","*",")"," ">>,
     <<"M","a","y"," ","p">>}

LoadYears == {<<"2","0","2","0",".","0">>, <<"2","0","2","0">>, <<"2","0">>}

LoadValues == {<<"1",",","2","3","4">>, <<"0">>, <<"b","a","d">>}

\* Every month label with the plain year, and the two spellings of January
\* with every year; each with every value.
LoadRows ==
    {Row(m, y, v) : m \in LoadMonths, y \in {<<"2","0","2","0">>}, v \in LoadValues}
    \cup {Row(m, y, v) : m \in {Jan, January}, y \in LoadYears, v \in LoadValues}

\* Headers that lack a needed column.
BadHeaders == {{"Month", "Year"}, {"Year", "42"}, {"Month", "42"}, {}}

LoadFiles ==
    {NoFile, EmptyFile, ShortFile}
    \cup {Table(h, <<>>) : h \in BadHeaders}
    \cup {Table(NeededCols \cup {"44"}, <<r>>) : r \in LoadRows}
    \cup {Table(NeededCols, rows) : rows \in SeqsUpTo(LoadRows, MaxLoadRows)}

\* Rows of the files of a whole run: two good months, a row whose date does
\* not parse and a row whose value does not.
RunRows ==
    {Row(January, <<"2","0","2","0">>, <<"1","0","0">>),
     Row(February, <<"2","0","2","0",".","0">>, <<"1",",","2","3","4">>),
     Row(Jan, <<"2","0","2","0">>, <<"7">>),
     Row(January, <<"2","0","2","1">>, <<"b","a","d">>)}

RunFiles ==
    {NoFile, EmptyFile, ShortFile, Table({"Month", "Year"}, <<>>)}
    \cup {Table(NeededCols, rows) : rows \in SeqsUpTo(RunRows, MaxFileRows)}

\* Cleaned series of the metric specification.  Sales values include zero.
SalesValues == {Fin(0, 1), Fin(100, 1), Fin(200, 1)}
InventoryValue == Fin(50, 1)
FirstMonth == MkDate(2020, 1)

\* Series with repeated dates: two dates, two months apart.
DupDates == {FirstMonth, FirstMonth + 2}

DupSeries(values) ==
    {t \in SeqsUpTo([Date : DupDates, Value : values], MaxDupRows) :
        t # <<>> /\ IsSortedByDate(t)}

\* Series with one row per month: n months of sales, constant but for one
\* row; the inventories of the same months, but for one month left out.
MonthSales(n, c, p, v) ==
    [i \in 1..n |-> [Date |-> FirstMonth + i - 1, Value |-> IF i = p THEN v ELSE c]]

MonthInventories(n, skip) ==
    SelectSeq([i \in 1..n |-> [Date |-> FirstMonth + i - 1, Value |-> InventoryValue]],
              LAMBDA r : r.Date # FirstMonth + skip - 1)

----------------------------------------------------------------------------
(* State *)

VARIABLES
    label,           \* the month label given to the cleaning chain
    cleaned,         \* <<once, twice>>: the label cleaned, and cleaned again
    salesFile,       \* data/raw/Sales_Adjusted.csv
    invFile,         \* data/raw/Inventories_Adjusted.csv
    pc,              \* the statement the script is at
    dirs,            \* the output directories that exist
    csv,             \* data/processed/merged_wts_data_nominal.csv
    charts,          \* the chart images written, in order
    sales_df,        \* run_data_processing's sales_df
    inventories_df,  \* run_data_processing's inventories_df
    merged_df,       \* run_data_processing's merged_df
    result,          \* what run_data_processing returned
    exc,             \* the exception that ended the script, or "none"
    out,             \* the messages printed, in order
    events           \* the file-system operations done, in order

vars ==
    <<label, cleaned, salesFile, invFile, pc, dirs, csv, charts, sales_df,
      inventories_df, merged_df, result, exc, out, events>>

SALES_NAME == "Sales_Adjusted.csv"
INVENTORIES_NAME == "Inventories_Adjusted.csv"

CHART_FILES ==
    <<"1_nominal_sales_trend.png", "2_nominal_is_ratio_trend.png",
      "3_yoy_sales_growth.png", "4_sales_vs_inventories_levels.png">>

NoCsv == [exists |-> FALSE, content |-> "none", rows |-> <<>>]
PriorCsv == [exists |-> TRUE, content |-> "prior", rows |-> <<>>]

\* The variables a specification leaves idle.
IdleClean == label = <<>> /\ cleaned = <<>>

IdleRun ==
    /\ dirs = {} /\ csv = NoCsv /\ charts = <<>>
    /\ sales_df = <<>> /\ inventories_df = <<>> /\ merged_df = <<>>
    /\ result = "unset" /\ exc = "none" /\ out = <<>> /\ events = <<>>

----------------------------------------------------------------------------
(* The month-label cleaning chain applied twice *)

InitClean ==
    /\ label \in Labels
    /\ cleaned = <<>>
    /\ pc = "clean"
    /\ salesFile = NoFile /\ invFile = NoFile
    /\ IdleRun

CleanLabel ==
    /\ pc = "clean"
    /\ cleaned' = <<CleanMonth(label), CleanMonth(CleanMonth(label))>>
    /\ pc' = "cleaned"
    /\ UNCHANGED <<label, salesFile, invFile, dirs, csv, charts, sales_df,
                   inventories_df, merged_df, result, exc, out, events>>

SpecClean == InitClean /\ [][CleanLabel]_vars

----------------------------------------------------------------------------
(* The script: run_data_processing (lines 80-116), generate_charts (lines  *)
(* 120-170) and the entry point (lines 174-179)                            *)

\* Line 86.
MakeDirsProcessed ==
    /\ pc = "makedirs_processed"
    /\ dirs' = dirs \cup {"processed"}
    /\ events' = Append(events, "makedirs_processed")
    /\ pc' = "makedirs_charts"
    /\ UNCHANGED <<label, cleaned, salesFile, invFile, csv, charts, sales_df,
                   inventories_df, merged_df, result, exc, out>>

\* Lines 87-89.
MakeDirsCharts ==
    /\ pc = "makedirs_charts"
    /\ dirs' = dirs \cup {"charts"}
    /\ events' = Append(events, "makedirs_charts")
    /\ out' = Append(out, Msg("starting", "", 0))
    /\ pc' = "load_sales"
    /\ UNCHANGED <<label, cleaned, salesFile, invFile, csv, charts, sales_df,
                   inventories_df, merged_df, result, exc>>

\* Line 91: the call returns a series, or its exception ends the script.
LoadSales ==
    /\ pc = "load_sales"
    /\ \E r \in LoadAndCleanData(salesFile, SALES_NAME) :
          /\ out' = out \o r.out
          /\ exc' = r.exc
          /\ sales_df' = r.df
          /\ pc' = IF r.exc = "none" THEN "load_inventories" ELSE "crashed"
    /\ events' = Append(events, "read_sales")
    /\ UNCHANGED <<label, cleaned, salesFile, invFile, dirs, csv, charts,
                   inventories_df, merged_df, result>>

\* Line 92.
LoadInventories ==
    /\ pc = "load_inventories"
    /\ \E r \in LoadAndCleanData(invFile, INVENTORIES_NAME) :
          /\ out' = out \o r.out
          /\ exc' = r.exc
          /\ inventories_df' = r.df
          /\ pc' = IF r.exc = "none" THEN "warn_sales" ELSE "crashed"
    /\ events' = Append(events, "read_inventories")
    /\ UNCHANGED <<label, cleaned, salesFile, invFile, dirs, csv, charts,
                   sales_df, merged_df, result>>

\* Lines 94-95.
WarnSales ==
    /\ pc = "warn_sales"
    /\ out' = IF sales_df = <<>> THEN Append(out, Msg("sales_empty", SALES_NAME, 0)) ELSE out
    /\ pc' = "warn_inventories"
    /\ UNCHANGED <<label, cleaned, salesFile, invFile, dirs, csv, charts, sales_df,
                   inventories_df, merged_df, result, exc, events>>

\* Lines 96-97.
WarnInventories ==
    /\ pc = "warn_inventories"
    /\ out' = IF inventories_df = <<>>
              THEN Append(out, Msg("inventories_empty", INVENTORIES_NAME, 0)) ELSE out
    /\ pc' = "check_empty"
    /\ UNCHANGED <<label, cleaned, salesFile, invFile, dirs, csv, charts, sales_df,
                   inventories_df, merged_df, result, exc, events>>

\* A slip: the abort message printed without the return, so that the
\* function goes on to its merge and its write.
AbortNoReturn ==
    /\ pc = "check_empty"
    /\ sales_df = <<>> \/ inventories_df = <<>>
    /\ out' = Append(out, Msg("aborting", "", 0))
    /\ merged_df' = MergedTable(sales_df, inventories_df)
    /\ pc' = "to_csv"
    /\ UNCHANGED <<label, cleaned, salesFile, invFile, dirs, csv, charts, sales_df,
                   inventories_df, result, exc, events>>

\* Lines 99-101.
Abort ==
    /\ pc = "check_empty"
    /\ sales_df = <<>> \/ inventories_df = <<>>
    /\ out' = Append(out, Msg("aborting", "", 0))
    /\ result' = "None"
    /\ pc' = "main_check"
    /\ UNCHANGED <<label, cleaned, salesFile, invFile, dirs, csv, charts, sales_df,
                   inventories_df, merged_df, exc, events>>

\* Lines 99 (not taken) and 104-111.
Merge ==
    /\ pc = "check_empty"
    /\ ~(sales_df = <<>> \/ inventories_df = <<>>)
    /\ merged_df' = MergedTable(sales_df, inventories_df)
    /\ pc' = "to_csv"
    /\ UNCHANGED <<label, cleaned, salesFile, invFile, dirs, csv, charts, sales_df,
                   inventories_df, result, exc, out, events>>

\* Lines 113-116: the file is replaced, and the table returned.
ToCsv ==
    /\ pc = "to_csv"
    /\ csv' = [exists |-> TRUE, content |-> "run", rows |-> merged_df]
    /\ events' = Append(events, "write_csv")
    /\ out' = Append(out, Msg("saved", "merged_wts_data_nominal.csv", 0))
    /\ result' = "df"
    /\ pc' = "main_check"
    /\ UNCHANGED <<label, cleaned, salesFile, invFile, dirs, charts, sales_df,
                   inventories_df, merged_df, exc>>

\* A slip in line 176: the test for an empty table left out.
EnterChartsWhenNotNone ==
    /\ pc = "main_check"
    /\ result # "None"
    /\ out' = Append(out, Msg("generating_charts", "", 0))
    /\ pc' = "charts"
    /\ UNCHANGED <<label, cleaned, salesFile, invFile, dirs, csv, charts, sales_df,
                   inventories_df, merged_df, result, exc, events>>

\* Lines 176 (taken), 177 and 123.
EnterCharts ==
    /\ pc = "main_check"
    /\ result # "None" /\ merged_df # <<>>
    /\ out' = Append(out, Msg("generating_charts", "", 0))
    /\ pc' = "charts"
    /\ UNCHANGED <<label, cleaned, salesFile, invFile, dirs, csv, charts, sales_df,
                   inventories_df, merged_df, result, exc, events>>

\* Line 176, not taken: the script ends.
SkipCharts ==
    /\ pc = "main_check"
    /\ ~(result # "None" /\ merged_df # <<>>)
    /\ pc' = "done"
    /\ UNCHANGED <<label, cleaned, salesFile, invFile, dirs, csv, charts, sales_df,
                   inventories_df, merged_df, result, exc, out, events>>

\* Lines 132, 144, 156 and 167: the next of the four images.
SaveFig ==
    /\ pc = "charts"
    /\ Len(charts) < Len(CHART_FILES)
    /\ charts' = Append(charts, CHART_FILES[Len(charts) + 1])
    /\ events' = Append(events, "savefig")
    /\ UNCHANGED <<label, cleaned, salesFile, invFile, pc, dirs, csv, sales_df,
                   inventories_df, merged_df, result, exc, out>>

\* Lines 170, 178 and 179.
Complete ==
    /\ pc = "charts"
    /\ Len(charts) = Len(CHART_FILES)
    /\ out' = out \o <<Msg("charts_saved", "", 0), Msg("complete", "", 0),
                       Msg("next_step", "merged_wts_data_nominal.csv", 0)>>
    /\ pc' = "done"
    /\ UNCHANGED <<label, cleaned, salesFile, invFile, dirs, csv, charts, sales_df,
                   inventories_df, merged_df, result, exc, events>>

\* The script starts with any two input files; the output directories and
\* an earlier run's merged CSV may be there already.
Init ==
    /\ IdleClean
    /\ salesFile \in RunFiles
    /\ invFile \in RunFiles
    /\ pc = "makedirs_processed"
    /\ dirs \in {{}, {"processed"}, {"processed", "charts"}}
    /\ csv \in {NoCsv} \cup (IF "processed" \in dirs THEN {PriorCsv} ELSE {})
    /\ charts = <<>>
    /\ sales_df = <<>> /\ inventories_df = <<>> /\ merged_df = <<>>
    /\ result = "unset" /\ exc = "none" /\ out = <<>> /\ events = <<>>

Next ==
    \/ MakeDirsProcessed
    \/ MakeDirsCharts
    \/ LoadSales
    \/ LoadInventories
    \/ WarnSales
    \/ WarnInventories
    \/ Abort
    \/ Merge
    \/ ToCsv
    \/ EnterCharts
    \/ SkipCharts
    \/ SaveFig
    \/ Complete

Spec == Init /\ [][Next]_vars

----------------------------------------------------------------------------
(* load_and_clean_data alone, on one file *)

InitLoad ==
    /\ IdleClean
    /\ salesFile \in LoadFiles
    /\ invFile = NoFile
    /\ pc = "load_sales"
    /\ IdleRun

SpecLoad == InitLoad /\ [][LoadSales]_vars

----------------------------------------------------------------------------
(* The merge and the derived columns alone, on two cleaned series *)

InitMetrics ==
    /\ IdleClean
    /\ salesFile = NoFile /\ invFile = NoFile
    /\ pc = "check_empty"
    /\ \/ \E s \in DupSeries(SalesValues), t \in DupSeries({InventoryValue}) :
              sales_df = s /\ inventories_df = t
       \/ \E n \in 1..MaxMonthRows, c, v \in SalesValues :
              \E p, skip \in 0..n :
                  /\ sales_df = MonthSales(n, c, p, v)
                  /\ inventories_df = MonthInventories(n + 1, skip)
    /\ dirs = {} /\ csv = NoCsv /\ charts = <<>> /\ merged_df = <<>>
    /\ result = "unset" /\ exc = "none" /\ out = <<>> /\ events = <<>>

SpecMetrics == InitMetrics /\ [][Merge]_vars

----------------------------------------------------------------------------
(* Properties *)

Positions(seq, x) == {i \in 1..Len(seq) : seq[i] = x}

Occurs(seq, x) == Positions(seq, x) # {}

\* Every x of seq comes after some y.
AllAfter(seq, x, y) ==
    \A i \in Positions(seq, x) : \E j \in Positions(seq, y) : j < i

Ended == pc \in {"done", "crashed"}

\* The call of line 91 (line 92) returned, and the series it returned is
\* empty.
SalesCameOutEmpty ==
    /\ Occurs(events, "read_sales")
    /\ ~(pc = "crashed" /\ ~Occurs(events, "read_inventories"))
    /\ sales_df = <<>>

InventoriesCameOutEmpty ==
    /\ Occurs(events, "read_inventories")
    /\ pc # "crashed"
    /\ inventories_df = <<>>

AbortedCleanly ==
    /\ result = "None"
    /\ ~Occurs(events, "write_csv")
    /\ ~Occurs(events, "savefig") /\ charts = <<>>
    /\ Occurs(out, Msg("aborting", "", 0))
    /\ SalesCameOutEmpty =>
          AllAfter(out, Msg("aborting", "", 0), Msg("sales_empty", SALES_NAME, 0))
    /\ InventoriesCameOutEmpty =>
          AllAfter(out, Msg("aborting", "", 0), Msg("inventories_empty", INVENTORIES_NAME, 0))

\* C1: a run in which a cleaned input series came out empty ends with
\* run_data_processing having returned None, no merged CSV and no chart
\* written, and each empty input named before the abort message.
C1_EmptyInputAborts ==
    (Ended /\ (SalesCameOutEmpty \/ InventoriesCameOutEmpty)) => AbortedCleanly

\* The same, of the runs in which neither call of load_and_clean_data
\* raises.
C1_EmptyInputAbortsWhenBothLoadsReturn ==
    (pc = "done" /\ (sales_df = <<>> \/ inventories_df = <<>>)) => AbortedCleanly

Unparseable(file) ==
    \/ file.kind \in {"absent", "empty", "short"}
    \/ file.kind = "table" /\ ~(NeededCols \subseteq file.cols)

\* C2: load_and_clean_data never raises, and of a file that is absent or
\* holds no parseable table it returns an empty series, having printed a
\* diagnostic.
C2_LoaderNeverRaises ==
    Occurs(events, "read_sales") =>
        /\ exc = "none"
        /\ Unparseable(salesFile) => (sales_df = <<>> /\ out # <<>>)

\* C3: of a table with the Month, Year and 42 columns the loader returns,
\* without raising, exactly the rows whose cleaned "<Month> <Year>" parses as
\* a date and whose value parses as a number: as many of each (Date, Value)
\* as the input holds, none with a null Date or Value.
C3_ExactlyTheParseableRows ==
    (Occurs(events, "read_sales") /\ salesFile.kind = "table"
        /\ NeededCols \subseteq salesFile.cols) =>
        LET in == salesFile.rows
            Parses(r) == RowDate(r) # NaT /\ ~IsNull(RowValue(r))
        IN  /\ exc = "none"
            /\ \A i \in 1..Len(sales_df) :
                  sales_df[i].Date # NaT /\ ~IsNull(sales_df[i].Value)
            /\ Len(sales_df) = Cardinality({i \in 1..Len(in) : Parses(in[i])})
            /\ \A i \in 1..Len(in) :
                  Parses(in[i]) =>
                      Cardinality({j \in 1..Len(sales_df) :
                                      /\ sales_df[j].Date = RowDate(in[i])
                                      /\ sales_df[j].Value = RowValue(in[i])})
                      = Cardinality({j \in 1..Len(in) :
                                      /\ RowDate(in[j]) = RowDate(in[i])
                                      /\ RowValue(in[j]) = RowValue(in[i])})

\* A table of two rows, one kept and one dropped, has been loaded.
C3_Witness ==
    /\ Occurs(events, "read_sales")
    /\ salesFile.kind = "table" /\ NeededCols \subseteq salesFile.cols
    /\ Len(salesFile.rows) = 2 /\ Len(sales_df) = 1

Merged == pc = "to_csv"

DatesOf(t) == {t[i].Date : i \in 1..Len(t)}

RowsOn(t, d) == Cardinality({i \in 1..Len(t) : t[i].Date = d})

\* C4: the merged table of two non-empty cleaned series holds, for each
\* Date, as many rows as the product of the sales rows and the inventories
\* rows of that Date: every merged Date is in both inputs, a Date of one
\* input alone gives no row, and unique dates give one row per common Date.
C4_InnerJoinCrossProduct ==
    Merged =>
        /\ \A d \in DatesOf(sales_df) \cup DatesOf(inventories_df) \cup DatesOf(merged_df) :
              RowsOn(merged_df, d) = RowsOn(sales_df, d) * RowsOn(inventories_df, d)
        /\ DatesOf(merged_df) = DatesOf(sales_df) \cap DatesOf(inventories_df)
        /\ ((\A d \in DatesOf(sales_df) : RowsOn(sales_df, d) = 1)
             /\ (\A d \in DatesOf(inventories_df) : RowsOn(inventories_df, d) = 1))
            => Len(merged_df) = Cardinality(DatesOf(sales_df) \cap DatesOf(inventories_df))

\* A merge in which one Date is repeated in both inputs and another Date is
\* in one input only.
C4_Witness ==
    /\ Merged
    /\ \E d \in DatesOf(merged_df) :
          RowsOn(sales_df, d) >= 2 /\ RowsOn(inventories_df, d) >= 2
    /\ DatesOf(sales_df) # DatesOf(inventories_df)

\* C5: Sales_YoY_Growth is null in each of the first twelve rows of the
\* merged table (rows 0 to 11), so in every row of a table of fewer than
\* twelve.
C5_FirstTwelveRowsNull ==
    Merged =>
        \A i \in 1..Len(merged_df) :
            i <= 12 => IsNull(merged_df[i].Sales_YoY_Growth)

\* A merged table with a thirteenth row, whose growth is defined.
C5_Witness ==
    /\ Merged
    /\ Len(merged_df) >= 13
    /\ ~IsNull(merged_df[13].Sales_YoY_Growth)

\* 100 * (now - before) / before, in float arithmetic.
PercentChange(now, before) ==
    FDiv(FMul(Fin(100, 1), FSub(now, before)), before)

\* C6: from the thirteenth row on (row index 12), Sales_YoY_Growth is
\* 100 * (Sales[i] - Sales[i-12]) / Sales[i-12] of the row twelve positions
\* earlier, whatever the dates of the two rows; so it is 0 from that row on
\* when Sales is 100 throughout.
C6_GrowthOverTwelveRows ==
    Merged =>
        /\ \A i \in 1..Len(merged_df) :
              i >= 13 =>
                  merged_df[i].Sales_YoY_Growth
                  = PercentChange(merged_df[i].Sales_Total_Nominal,
                                  merged_df[i - 12].Sales_Total_Nominal)
        /\ (\A i \in 1..Len(merged_df) : merged_df[i].Sales_Total_Nominal = Fin(100, 1))
            => \A i \in 1..Len(merged_df) :
                   i >= 13 => merged_df[i].Sales_YoY_Growth = Fin(0, 1)

\* A merged table whose thirteenth row is not twelve months after its
\* first, with a growth that is neither null nor zero.
C6_Witness ==
    /\ Merged
    /\ Len(merged_df) >= 13
    /\ merged_df[13].Date - merged_df[1].Date # 12
    /\ merged_df[13].Sales_YoY_Growth.k = "fin"
    /\ merged_df[13].Sales_YoY_Growth # Fin(0, 1)

Loaded == Occurs(events, "read_sales")

Year2020 == <<"2","0","2","0">>

\* C7, with the abbreviated label: the rows ("Jan", "2020.0", "1,234") and
\* ("Feb", "2020", "bad") clean to the one row 2020-01-01, 1234.0.
C7_JanRowIsKept ==
    (Loaded /\ salesFile = Table(NeededCols,
                  <<Row(Jan, Year2020 \o <<".", "0">>, <<"1",",","2","3","4">>),
                    Row(Feb, Year2020, <<"b","a","d">>)>>))
        => sales_df = <<[Date |-> MkDate(2020, 1), Value |-> Fin(1234, 1)]>>

\* C7, amended: with the month spelled out, ("January", "2020.0", "1,234")
\* and ("Feb", "2020", "bad") clean to the one row 2020-01-01, 1234.0; with
\* "Jan" the first row is dropped as well, and the series is empty.
C7_JanuaryRowIsKept ==
    /\ (Loaded /\ salesFile = Table(NeededCols,
                  <<Row(January, Year2020 \o <<".", "0">>, <<"1",",","2","3","4">>),
                    Row(Feb, Year2020, <<"b","a","d">>)>>))
          => (exc = "none"
              /\ sales_df = <<[Date |-> MkDate(2020, 1), Value |-> Fin(1234, 1)]>>)
    /\ (Loaded /\ salesFile = Table(NeededCols,
                  <<Row(Jan, Year2020 \o <<".", "0">>, <<"1",",","2","3","4">>),
                    Row(Feb, Year2020, <<"b","a","d">>)>>))
          => (exc = "none" /\ sales_df = <<>>)

\* The amended rows have been loaded.
C7_Witness ==
    /\ Loaded
    /\ salesFile.kind = "table" /\ salesFile.cols = NeededCols
    /\ salesFile.rows = <<Row(January, Year2020 \o <<".", "0">>, <<"1",",","2","3","4">>),
                          Row(Feb, Year2020, <<"b","a","d">>)>>
    /\ Len(sales_df) = 1

\* C8: cleaning a cleaned month label changes nothing.
C8_CleanIdempotent == pc = "cleaned" => cleaned[2] = cleaned[1]

\* A label that cleaning changes, with a footnote mark between whitespace,
\* has been cleaned twice.
C8_Witness ==
    /\ pc = "cleaned"
    /\ label = <<"a", " ", ".", "\t">>
    /\ cleaned[1] = <<"a">>

\* C9: the output directories are both made before an input file is read;
\* the merged CSV is written only after both inputs were read and came out
\* non-empty; a chart is written only after the merged CSV.
C9_StepsInOrder ==
    /\ AllAfter(events, "read_sales", "makedirs_processed")
    /\ AllAfter(events, "read_sales", "makedirs_charts")
    /\ AllAfter(events, "read_inventories", "makedirs_processed")
    /\ AllAfter(events, "read_inventories", "makedirs_charts")
    /\ Occurs(events, "read_sales") => {"processed", "charts"} \subseteq dirs
    /\ AllAfter(events, "write_csv", "read_sales")
    /\ AllAfter(events, "write_csv", "read_inventories")
    /\ Occurs(events, "write_csv") => (sales_df # <<>> /\ inventories_df # <<>>)
    /\ AllAfter(events, "savefig", "write_csv")
    /\ charts # <<>> => (csv.exists /\ csv.content = "run")

\* A run that wrote the merged CSV and all four charts.
C9_Witness ==
    /\ pc = "done"
    /\ Len(charts) = 4
    /\ Occurs(events, "write_csv")

NoCommonDate ==
    /\ sales_df # <<>> /\ inventories_df # <<>>
    /\ DatesOf(sales_df) \cap DatesOf(inventories_df) = {}

\* C10: a run whose two cleaned series are non-empty and share no Date does
\* not abort: it replaces the merged CSV by one without data rows, writes no
\* chart and prints no completion message.
C10_NoCommonDateWritesEmptyCsv ==
    (pc = "done" /\ NoCommonDate) =>
        /\ result = "df"
        /\ ~Occurs(out, Msg("aborting", "", 0))
        /\ csv = [exists |-> TRUE, content |-> "run", rows |-> <<>>]
        /\ Occurs(events, "write_csv")
        /\ charts = <<>> /\ ~Occurs(events, "savefig")
        /\ ~Occurs(out, Msg("complete", "", 0))

\* Such a run has ended.
C10_Witness == pc = "done" /\ NoCommonDate /\ exc = "none"

====
